---- MODULE Spec2Model ----
(***************************************************************************)
(* Model of lib/cuckoo/core/processor.py: the Processor class that runs    *)
(* the processing modules, merges their fragments into the results dict,   *)
(* runs the signatures against it and attaches the sorted matches.         *)
(*                                                                         *)
(* Strings that the code takes apart (version strings) are sequences of    *)
(* one-character strings.  Python's None is the empty sequence where a     *)
(* value is optional: a returned fragment or match is <<>> (None) or <<v>>. *)
(***************************************************************************)
EXTENDS Integers, Sequences, FiniteSets, TLC

VARIABLES
    CUCKOO_VERSION,   \* the running engine's version string (constants.py)
    pc,               \* position of Processor.run
    results,          \* the "fat dict": function from a set of keys to values
    modules_list,     \* list_plugins(group="processing"), sorted by order
    mi,               \* index of the next module of the for loop
    signatures_list,  \* list_plugins(group="signatures")
    si,               \* index of the next signature of the for loop
    sigs,             \* the matched signatures collected so far
    calls,            \* plugin code entered so far: <<what, unit id>>
    log,              \* records handed to the logger: <<level, message, unit id>>
    raised            \* the exception that left run: <<>> or <<its origin>>

vars == <<CUCKOO_VERSION, pc, results, modules_list, mi, signatures_list, si,
          sigs, calls, log, raised>>

-----------------------------------------------------------------------------
(* Bounds of the model. *)

MaxModules == 2

MaxSigs == 2

MaxOrder == 2

MaxSeverity == 2

MaxGateSigs == 1

-----------------------------------------------------------------------------
(* Generic helpers. *)

Last(s) == s[Len(s)]

Front(s) == SubSeq(s, 1, Len(s) - 1)

SeqsUpTo(S, n) == UNION {[1..k -> S] : k \in 0..n}

\* An update that keeps the value of a key that is already present.
DictUpdateKeep(d1, d2) ==
    [k \in DOMAIN d1 \cup DOMAIN d2 |-> IF k \in DOMAIN d1 THEN d1[k] ELSE d2[k]]

\* d1.update(d2) on dicts modelled as functions.
DictUpdate(d1, d2) ==
    [k \in DOMAIN d1 \cup DOMAIN d2 |-> IF k \in DOMAIN d2 THEN d2[k] ELSE d1[k]]

EmptyDict == [k \in {} |-> 0]

\* The truth value of the data in the place of that of the fragment.
TruthyData(opt) ==
    opt # <<>> /\ \A k \in DOMAIN opt[1] : opt[1][k] # "None"

\* Python truth value of an optional dict: None and {} are false.
Truthy(opt) == opt # <<>> /\ DOMAIN opt[1] # {}

-----------------------------------------------------------------------------
(* list.sort(key=...): Python's sort is stable.  Elements are inserted     *)
(* left to right, each after every element whose key is not greater.       *)

\* An insertion that puts x before the elements of equal key: not stable.
RECURSIVE InsertByKeyUnstable(_, _)
InsertByKeyUnstable(x, s) ==
    IF s = <<>> THEN <<x>>
    ELSE IF Last(s)[1] < x[1] THEN Append(s, x)
    ELSE Append(InsertByKeyUnstable(x, Front(s)), Last(s))

\* The list is a sequence of <<key, element>> pairs.
RECURSIVE InsertByKey(_, _)
InsertByKey(x, s) ==
    IF s = <<>> THEN <<x>>
    ELSE IF Last(s)[1] <= x[1] THEN Append(s, x)
    ELSE Append(InsertByKey(x, Front(s)), Last(s))

RECURSIVE StableSort(_)
StableSort(s) ==
    IF s = <<>> THEN <<>>
    ELSE InsertByKey(Last(s), StableSort(Front(s)))

\* The same list left as the registry supplied it.
SortModulesNot(list) == list

\* modules_list.sort(key=lambda module: module.order)
SortModules(list) ==
    LET sorted == StableSort([i \in 1..Len(list) |-> <<list[i].order, list[i]>>])
    IN  [i \in 1..Len(list) |-> sorted[i][2]]

\* sigs.sort(key=lambda key: key["severity"])
SortSigs(list) ==
    LET sorted == StableSort([i \in 1..Len(list) |-> <<list[i].severity, list[i]>>])
    IN  [i \in 1..Len(list) |-> sorted[i][2]]

-----------------------------------------------------------------------------
(* distutils.version.StrictVersion as used at lines 91 and 108.            *)

Digits == {"0", "1", "2", "3", "4", "5", "6", "7", "8", "9"}

DigitVal(c) ==
    CASE c = "0" -> 0 [] c = "1" -> 1 [] c = "2" -> 2 [] c = "3" -> 3
      [] c = "4" -> 4 [] c = "5" -> 5 [] c = "6" -> 6 [] c = "7" -> 7
      [] c = "8" -> 8 [] c = "9" -> 9

Drop(s, n) == SubSeq(s, n + 1, Len(s))

\* s.split("-")[0]: the part before the first "-".
RECURSIVE SplitDash0(_)
SplitDash0(s) ==
    IF s = <<>> THEN <<>>
    ELSE IF s[1] = "-" THEN <<>>
    ELSE <<s[1]>> \o SplitDash0(Tail(s))

\* Length of the longest prefix of digits (\d+ is greedy).
RECURSIVE DigitRun(_)
DigitRun(s) ==
    IF s = <<>> THEN 0
    ELSE IF s[1] \in Digits THEN 1 + DigitRun(Tail(s))
    ELSE 0

RECURSIVE ToInt(_)
ToInt(ds) == IF ds = <<>> THEN 0 ELSE 10 * ToInt(Front(ds)) + DigitVal(Last(ds))

\* StrictVersion.parse matches ^(\d+)\.(\d+)(\.(\d+))?([ab](\d+))?$ ; a string
\* that does not match raises ValueError (ok = FALSE).  The operators below
\* match the pattern group by group, from the last group to the first.
InvalidVersion ==
    [ok |-> FALSE, parsed |-> FALSE, version |-> <<0, 0, 0>>, prerelease |-> <<>>]

\* Version.__init__ parses only "if vstring": for the empty string no
\* ValueError is raised and the object has no version attribute.
UnparsedVersion ==
    [ok |-> TRUE, parsed |-> FALSE, version |-> <<0, 0, 0>>, prerelease |-> <<>>]

\* ([ab](\d+))?$
ParsePrerelease(version, r) ==
    LET n == IF r # <<>> /\ r[1] \in {"a", "b"} THEN DigitRun(Tail(r)) ELSE 0
    IN  IF n > 0 /\ Drop(r, n + 1) = <<>>
        THEN [ok |-> TRUE, parsed |-> TRUE, version |-> version,
              prerelease |-> <<IF r[1] = "a" THEN 1 ELSE 2,
                               ToInt(SubSeq(r, 2, n + 1))>>]
        ELSE IF r = <<>>
        THEN [ok |-> TRUE, parsed |-> TRUE, version |-> version, prerelease |-> <<>>]
        ELSE InvalidVersion

\* (\.(\d+))? ; a missing patch number is 0.
ParsePatch(major, minor, r) ==
    LET n == IF r # <<>> /\ r[1] = "." THEN DigitRun(Tail(r)) ELSE 0
    IN  IF n > 0
        THEN ParsePrerelease(<<major, minor, ToInt(SubSeq(r, 2, n + 1))>>,
                             Drop(r, n + 1))
        ELSE ParsePrerelease(<<major, minor, 0>>, r)

\* \.(\d+)
ParseMinor(major, r) ==
    LET n == IF r # <<>> /\ r[1] = "." THEN DigitRun(Tail(r)) ELSE 0
    IN  IF n > 0
        THEN ParsePatch(major, ToInt(SubSeq(r, 2, n + 1)), Drop(r, n + 1))
        ELSE InvalidVersion

\* StrictVersion(vstring): ^(\d+)
StrictVersion(vstring) ==
    LET n == DigitRun(vstring)
    IN  IF vstring = <<>> THEN UnparsedVersion
        ELSE IF n > 0
        THEN ParseMinor(ToInt(SubSeq(vstring, 1, n)), Drop(vstring, n))
        ELSE InvalidVersion

\* cmp() of two tuples of numbers of the same length.
RECURSIVE TupleCmp(_, _)
TupleCmp(a, b) ==
    IF a = <<>> THEN 0
    ELSE IF a[1] < b[1] THEN -1
    ELSE IF a[1] > b[1] THEN 1
    ELSE TupleCmp(Tail(a), Tail(b))

\* StrictVersion.__cmp__ of two parsed versions.
VersionCmp(a, b) ==
    LET c == TupleCmp(a.version, b.version)
    IN  IF c # 0 THEN c
        ELSE IF a.prerelease = <<>> /\ b.prerelease = <<>> THEN 0
        ELSE IF a.prerelease # <<>> /\ b.prerelease = <<>> THEN -1
        ELSE IF a.prerelease = <<>> /\ b.prerelease # <<>> THEN 1
        ELSE TupleCmp(a.prerelease, b.prerelease)

-----------------------------------------------------------------------------
(* The two runners.  Each returns what the call did: the exception that    *)
(* left it (raised: <<>> when none), the value it returned (ret: <<>> is   *)
(* None), the plugin code it entered (calls) and what it logged (log).     *)

Outcome(exc, ret, entered, logged) ==
    [raised |-> exc, ret |-> ret, calls |-> entered, log |-> logged]

None == <<>>

\* A processing module class as list_plugins supplies it: id is the position
\* at which the registry supplied it, raises names the step of its handling
\* that throws ("none" when no step does).
ModuleRaises ==
    {"none", "init", "set_path", "config", "enabled",
     "CuckooProcessingError", "Exception"}

\* The enabled check left out.
ModuleSkippedNever(module) == FALSE

\* Line 42: if not current.enabled
ModuleSkipped(module) == ~module.enabled

\* "return data" in the place of "return {current.key : data}".
ModuleRunUnkeyed(module) ==
    IF module.raises \in {"CuckooProcessingError", "Exception"}
    THEN Outcome(<<>>, None, <<<<"module.run", module.id>>>>, <<>>)
    ELSE Outcome(<<>>, <<module.data>>, <<<<"module.run", module.id>>>>,
                 <<<<"debug", "Executed processing module", module.id>>>>)

\* The body of the try block without its except clauses.
ModuleRunUnguarded(module) ==
    IF module.raises \in {"CuckooProcessingError", "Exception"}
    THEN Outcome(<<"module.run">>, None, <<<<"module.run", module.id>>>>, <<>>)
    ELSE Outcome(<<>>, <<[k \in {module.key} |-> module.data]>>,
                 <<<<"module.run", module.id>>>>,
                 <<<<"debug", "Executed processing module", module.id>>>>)

\* Lines 45-63: the try block around current.run().
ModuleRun(module) ==
    \* except CuckooProcessingError: log.warning
    IF module.raises = "CuckooProcessingError"
    THEN Outcome(<<>>, None, <<<<"module.run", module.id>>>>,
                 <<<<"warning", "returned the following error", module.id>>>>)
    \* except Exception: log.exception
    ELSE IF module.raises = "Exception"
    THEN Outcome(<<>>, None, <<<<"module.run", module.id>>>>,
                 <<<<"exception", "Failed to run the processing module", module.id>>>>)
    \* return {current.key : data}
    ELSE Outcome(<<>>, <<[k \in {module.key} |-> module.data]>>,
                 <<<<"module.run", module.id>>>>,
                 <<<<"debug", "Executed processing module", module.id>>>>)

\* Processor._run_processing
_run_processing(module) ==
    LET c1 == <<<<"module()", module.id>>>>
        c2 == <<<<"module()", module.id>>, <<"set_path", module.id>>>>
        c3 == <<<<"module()", module.id>>, <<"set_path", module.id>>,
                <<"Config", module.id>>>>
        run == ModuleRun(module)
    IN  \* current = module()
        IF module.raises = "init"
        THEN Outcome(<<"module()">>, None, c1, <<>>)
        \* current.set_path(self.analysis_path)
        ELSE IF module.raises = "set_path"
        THEN Outcome(<<"set_path">>, None, c2, <<>>)
        \* current.cfg = Config(current.conf_path)
        ELSE IF module.raises = "config"
        THEN Outcome(<<"Config">>, None, c3, <<>>)
        \* if not current.enabled: return None
        ELSE IF module.raises = "enabled"
        THEN Outcome(<<"module.enabled">>, None, c3, <<>>)
        ELSE IF ModuleSkipped(module)
        THEN Outcome(<<>>, None, c3, <<>>)
        ELSE Outcome(run.raised, run.ret, c3 \o run.calls, run.log)

\* A signature class as list_plugins supplies it; name is the position at
\* which the registry supplied it; minimum and maximum are version strings,
\* <<>> when not declared; writes tells that its run assigns to the values of
\* the results object it was constructed with.
SignatureRaises == {"none", "init", "run"}

\* The declared bound parsed as given, its part after "-" kept.
CompareVersionsAsGiven(version, bound) ==
    LET v == StrictVersion(version)
        b == StrictVersion(bound)
    IN  IF ~v.ok \/ ~b.ok THEN "error"
        ELSE IF ~v.parsed \/ ~b.parsed THEN "raise"
        ELSE IF VersionCmp(v, b) < 0 THEN "less"
        ELSE IF VersionCmp(v, b) > 0 THEN "greater"
        ELSE "equal"

\* The outcome of "StrictVersion(version) <op> StrictVersion(bound)" inside
\* "try ... except ValueError": "error" when a constructor raises ValueError,
\* "raise" when the comparison reads the version attribute of an object that
\* has none (AttributeError, not caught), else the sign of the comparison.
CompareVersions(version, bound) ==
    LET v == StrictVersion(version)
        b == StrictVersion(SplitDash0(bound))
    IN  IF ~v.ok \/ ~b.ok THEN "error"
        ELSE IF ~v.parsed \/ ~b.parsed THEN "raise"
        ELSE IF VersionCmp(v, b) < 0 THEN "less"
        ELSE IF VersionCmp(v, b) > 0 THEN "greater"
        ELSE "equal"

\* The minimum check with <= in the place of <.
MinimumGateInclusive(version, minimum) ==
    LET c == CompareVersions(version, minimum)
    IN  IF c \in {"less", "equal"} THEN "skip"
        ELSE IF c = "greater" THEN "pass"
        ELSE c

\* Lines 87-100, the minimum-version check: "skip" (the running version is
\* older), "error" (ValueError, caught), "raise" (another exception) or "pass".
MinimumGate(version, minimum) ==
    LET c == CompareVersions(version, minimum)
    IN  IF c = "less" THEN "skip"
        ELSE IF c \in {"equal", "greater"} THEN "pass"
        ELSE c

\* Lines 104-117, the maximum-version check.
MaximumGate(version, maximum) ==
    LET c == CompareVersions(version, maximum)
    IN  IF c = "greater" THEN "skip"
        ELSE IF c \in {"less", "equal"} THEN "pass"
        ELSE c

\* The body of the try block without its except clause.
SignatureEvalUnguarded(signature) ==
    IF signature.raises = "run"
    THEN Outcome(<<"signature.run">>, None,
                 <<<<"signature.run", signature.name>>>>, <<>>)
    ELSE IF signature.matches
    THEN Outcome(<<>>,
                 <<[name |-> signature.name, severity |-> signature.severity]>>,
                 <<<<"signature.run", signature.name>>>>,
                 <<<<"debug", "matched signature", signature.name>>>>)
    ELSE Outcome(<<>>, None, <<<<"signature.run", signature.name>>>>, <<>>)

\* The match record built whatever current.run() returned.
SignatureEvalAlways(signature) ==
    IF signature.raises = "run"
    THEN Outcome(<<>>, None, <<<<"signature.run", signature.name>>>>,
                 <<<<"exception", "Failed to run signature", signature.name>>>>)
    ELSE Outcome(<<>>,
                 <<[name |-> signature.name, severity |-> signature.severity]>>,
                 <<<<"signature.run", signature.name>>>>,
                 <<<<"debug", "matched signature", signature.name>>>>)

\* Lines 119-138: the try block around current.run().  Of the match record
\* the name and the severity are kept; description, references, data and
\* alert are copied from the signature in the same way.
SignatureEval(signature) ==
    \* except Exception: log.exception
    IF signature.raises = "run"
    THEN Outcome(<<>>, None, <<<<"signature.run", signature.name>>>>,
                 <<<<"exception", "Failed to run signature", signature.name>>>>)
    \* if current.run(): return matched
    ELSE IF signature.matches
    THEN Outcome(<<>>,
                 <<[name |-> signature.name, severity |-> signature.severity]>>,
                 <<<<"signature.run", signature.name>>>>,
                 <<<<"debug", "matched signature", signature.name>>>>)
    ELSE Outcome(<<>>, None, <<<<"signature.run", signature.name>>>>, <<>>)

\* The enabled check of the signature left out.
SignatureSkippedNever(signature) == FALSE

\* Line 77: if not current.enabled
SignatureSkipped(signature) == ~signature.enabled

\* Every bound taken as declared.
DeclaredAlways(bound) == TRUE

\* Lines 87 and 104: "if current.minimum:", "if current.maximum:"; None and
\* the empty string are false.
Declared(bound) == bound # <<>>

\* Processor._run_signature; the signature reads the copy LocalDict(results).
_run_signature(signature, document, running) ==
    LET c1 == <<<<"signature()", signature.name>>>>
        l1 == <<<<"debug", "Running signature", signature.name>>>>
        \* version = CUCKOO_VERSION.split("-")[0]
        version == SplitDash0(running)
        \* if current.minimum: ... ; a bound that is not declared is not checked
        min == IF Declared(signature.minimum)
               THEN MinimumGate(version, signature.minimum) ELSE "pass"
        \* if current.maximum: ...
        max == IF Declared(signature.maximum)
               THEN MaximumGate(version, signature.maximum) ELSE "pass"
        eval == SignatureEval(signature)
    IN  \* current = signature(LocalDict(results))
        IF signature.raises = "init"
        THEN Outcome(<<"signature()">>, None, c1, <<>>)
        \* if not current.enabled: return None
        ELSE IF SignatureSkipped(signature)
        THEN Outcome(<<>>, None, c1, l1)
        ELSE IF min = "skip"
        THEN Outcome(<<>>, None, c1,
                     l1 \o <<<<"debug", "older incompatible version", signature.name>>>>)
        \* except ValueError
        ELSE IF min = "error"
        THEN Outcome(<<>>, None, c1,
                     l1 \o <<<<"debug", "Wrong minor version number", signature.name>>>>)
        ELSE IF min = "raise"
        THEN Outcome(<<"StrictVersion">>, None, c1, l1)
        ELSE IF max = "skip"
        THEN Outcome(<<>>, None, c1,
                     l1 \o <<<<"debug", "newer incompatible version", signature.name>>>>)
        \* except ValueError
        ELSE IF max = "error"
        THEN Outcome(<<>>, None, c1,
                     l1 \o <<<<"debug", "Wrong major version number", signature.name>>>>)
        ELSE IF max = "raise"
        THEN Outcome(<<"StrictVersion">>, None, c1, l1)
        \* try: if current.run(): ...
        ELSE Outcome(eval.raised, eval.ret, c1 \o eval.calls, l1 \o eval.log)

-----------------------------------------------------------------------------
(* Processor.run, one action per step.                                     *)

\* The classes of a registry list, each with the position it was supplied at.
WithId(list) == [i \in 1..Len(list) |-> [list[i] EXCEPT !.id = i]]

WithName(list) == [i \in 1..Len(list) |-> [list[i] EXCEPT !.name = i]]

\* A record is a function from its field names.
MatchTruthy(opt) == opt # <<>> /\ DOMAIN opt[1] # {}

\* Lines 150-156: results = {}; the registry supplies the processing modules;
\* they are sorted by order.
RunBegin(pool, n) ==
    /\ pc = "start"
    /\ \E list \in SeqsUpTo(pool, n) :
           modules_list' = SortModules(WithId(list))
    /\ results' = EmptyDict
    /\ mi' = 1
    /\ pc' = "processing"
    /\ UNCHANGED <<CUCKOO_VERSION, signatures_list, si, sigs, calls, log, raised>>

\* list_plugins itself fails, at line 155 or at line 170.
ListPluginsRaises ==
    /\ \/ pc = "start"
       \/ pc = "processing" /\ mi > Len(modules_list)
    /\ pc' = "raised"
    /\ raised' = <<"list_plugins">>
    /\ UNCHANGED <<CUCKOO_VERSION, results, modules_list, mi, signatures_list,
                   si, sigs, calls, log>>

\* Lines 159-164: one iteration of the loop over the modules.
RunModule ==
    /\ pc = "processing"
    /\ mi <= Len(modules_list)
    /\ LET out == _run_processing(modules_list[mi])
       IN  /\ calls' = calls \o out.calls
           /\ log' = log \o out.log
           /\ IF out.raised # <<>>
              THEN /\ pc' = "raised"
                   /\ raised' = out.raised
                   /\ UNCHANGED <<results, mi>>
              ELSE /\ results' = IF Truthy(out.ret)
                                 THEN DictUpdate(results, out.ret[1])
                                 ELSE results
                   /\ mi' = mi + 1
                   /\ UNCHANGED <<pc, raised>>
    /\ UNCHANGED <<CUCKOO_VERSION, modules_list, signatures_list, si, sigs>>

\* The signatures sorted by severity before they are evaluated.
SignaturesSortedFirst(list) == SortSigs(list)

\* Line 170, "for signature in list_plugins(group="signatures")": the loop
\* takes the signatures as the registry supplied them.
SignaturesAsSupplied(list) == list

\* Lines 167-170: sigs = []; the registry supplies the signatures.
RunListSignatures(pool, n) ==
    /\ pc = "processing"
    /\ mi > Len(modules_list)
    /\ \E list \in SeqsUpTo(pool, n) :
           signatures_list' = SignaturesAsSupplied(WithName(list))
    /\ sigs' = <<>>
    /\ si' = 1
    /\ pc' = "signatures"
    /\ UNCHANGED <<CUCKOO_VERSION, results, modules_list, mi, calls, log, raised>>

\* What the run of the signature leaves in the object it was constructed
\* with, when that object held `document`.
SignatureWrite(signature, document) ==
    IF signature.writes
    THEN [k \in DOMAIN document |-> "tampered"]
    ELSE document

\* Line 72, LocalDict(results): the document is handed to the signature by
\* reference, so what the signature leaves in the object it was given
\* (written) is what the document of Processor.run holds afterwards.
LocalDict(document, written) == written

\* The document after _run_signature: it is written only by the run of the
\* signature, through the object of line 72.
DocumentAfter(signature, document, entered) ==
    IF \E i \in 1..Len(entered) : entered[i][1] = "signature.run"
    THEN LocalDict(document, SignatureWrite(signature, document))
    ELSE document

\* Lines 170-174: one iteration of the loop over the signatures.
RunSignature ==
    /\ pc = "signatures"
    /\ si <= Len(signatures_list)
    /\ LET out == _run_signature(signatures_list[si], results, CUCKOO_VERSION)
       IN  /\ calls' = calls \o out.calls
           /\ log' = log \o out.log
           /\ results' = DocumentAfter(signatures_list[si], results, out.calls)
           /\ IF out.raised # <<>>
              THEN /\ pc' = "raised"
                   /\ raised' = out.raised
                   /\ UNCHANGED <<sigs, si>>
              ELSE /\ sigs' = IF MatchTruthy(out.ret)
                              THEN Append(sigs, out.ret[1])
                              ELSE sigs
                   /\ si' = si + 1
                   /\ UNCHANGED <<pc, raised>>
    /\ UNCHANGED <<CUCKOO_VERSION, modules_list, mi, signatures_list>>

\* The list stored only when the document has no "signatures" key yet.
AttachSignaturesIfAbsent(document, matches) ==
    DictUpdateKeep(document, [k \in {"signatures"} |-> matches])

\* Line 180: results["signatures"] = sigs
AttachSignatures(document, matches) ==
    DictUpdate(document, [k \in {"signatures"} |-> matches])

\* Lines 177-183: the matches are sorted by severity, stored under
\* "signatures" and the fat dict is returned.
RunFinish ==
    /\ pc = "signatures"
    /\ si > Len(signatures_list)
    /\ sigs' = SortSigs(sigs)
    /\ results' = AttachSignatures(results, sigs')
    /\ pc' = "done"
    /\ UNCHANGED <<CUCKOO_VERSION, modules_list, mi, signatures_list, si,
                   calls, log, raised>>

-----------------------------------------------------------------------------
(* Inputs.                                                                 *)

V_1_5 == <<"1", ".", "5">>

V_2 == <<"2">>

V_2_0a1 == <<"2", ".", "0", "a", "1">>

V_2_0 == <<"2", ".", "0">>

V_2_0_beta == <<"2", ".", "0", "-", "b", "e", "t", "a">>

V_2_0_1 == <<"2", ".", "0", ".", "1">>

V_2_1 == <<"2", ".", "1">>

V_2_1_dev == <<"2", ".", "1", "-", "d", "e", "v">>

V_abc == <<"a", "b", "c">>

V_dash_beta == <<"-", "b", "e", "t", "a">>

Keys == {"a", "b", "signatures"}

Datas == {"None", "d1"}

\* Processing modules: every order, key and failing step; a module that is
\* disabled or fails returns no data, so its data is fixed.
ModulePool ==
    {m \in [id : {0}, order : 1..MaxOrder, key : Keys, enabled : BOOLEAN,
            raises : ModuleRaises, data : Datas] :
        /\ (~m.enabled => m.raises = "none")
        /\ (~m.enabled \/ m.raises # "none" => m.data = "d1")}

ModuleFew ==
    {[id |-> 0, order |-> 1, key |-> "a", enabled |-> TRUE, raises |-> "none",
      data |-> "d1"]}

SigRecord(enabled, minimum, maximum, severity, raises, matches) ==
    [name |-> 0, enabled |-> enabled, minimum |-> minimum, maximum |-> maximum,
     severity |-> severity, raises |-> raises, matches |-> matches,
     writes |-> FALSE]

SigFew ==
    {SigRecord(TRUE, <<>>, <<>>, 1, "none", TRUE),
     SigRecord(TRUE, <<>>, <<>>, 1, "none", FALSE),
     SigRecord(TRUE, <<>>, <<>>, 1, "init", TRUE)}

\* What a signature does: a signature that is disabled or raises has no
\* match result, so its result is fixed.
SigBehaviours(S) ==
    {x \in S : /\ (x.raises # "none" => x.matches /\ x.enabled)
               /\ (~x.enabled => x.matches)}

\* Signatures for the collection and the sorting of the matches: their
\* constructors do not throw and they declare at most one version bound.
SigPool ==
    {x \in SigBehaviours([name : {0}, enabled : BOOLEAN, minimum : {<<>>, V_2_0},
                          maximum : {<<>>, V_2_0}, severity : 1..MaxSeverity,
                          raises : {"none", "run"}, matches : BOOLEAN,
                          writes : {FALSE}]) :
        x.minimum = <<>> \/ x.maximum = <<>>}

\* Signatures for the version gates.
BoundStrings == {<<>>, V_2_0, V_2_0_beta, V_abc, V_2, V_dash_beta}

RunningVersions == {V_1_5, V_2_0a1, V_2_0, V_2_0_1, V_2_1, V_2_1_dev, V_abc}

GatePool ==
    SigBehaviours([name : {0}, enabled : BOOLEAN, minimum : BoundStrings,
                   maximum : BoundStrings, severity : {1},
                   raises : SignatureRaises, matches : BOOLEAN,
                   writes : {FALSE}])

\* The state in which Processor.run is entered, for a running version.
InitWith(versions) ==
    /\ CUCKOO_VERSION \in versions
    /\ pc = "start"
    /\ results = EmptyDict
    /\ modules_list = <<>>
    /\ mi = 1
    /\ signatures_list = <<>>
    /\ si = 1
    /\ sigs = <<>>
    /\ calls = <<>>
    /\ log = <<>>
    /\ raised = <<>>

Init == InitWith({V_2_0})

\* Processor.run over every kind of processing module.
Next ==
    \/ RunBegin(ModulePool, MaxModules)
    \/ ListPluginsRaises
    \/ RunModule
    \/ RunListSignatures(SigFew, 1)
    \/ RunSignature
    \/ RunFinish

Spec == Init /\ [][Next]_vars

InitSig == InitWith({V_1_5, V_2_1_dev})

\* Processor.run over the signatures that match, do not match, are gated or fail.
NextSig ==
    \/ RunBegin(ModuleFew, 1)
    \/ ListPluginsRaises
    \/ RunModule
    \/ RunListSignatures(SigPool, MaxSigs)
    \/ RunSignature
    \/ RunFinish

SpecSig == InitSig /\ [][NextSig]_vars

InitGate == InitWith(RunningVersions)

\* Processor.run over every pair of version bounds and every running version.
NextGate ==
    \/ RunBegin(ModuleFew, 1)
    \/ ListPluginsRaises
    \/ RunModule
    \/ RunListSignatures(GatePool, MaxGateSigs)
    \/ RunSignature
    \/ RunFinish

SpecGate == InitGate /\ [][NextGate]_vars

\* The modules and the signatures of the end-to-end example: A(order 2, key
\* "a", run returns {"x": 1}), B(order 1, key "b", run returns {"y": 2}),
\* S1(severity 5, matches), S2(severity 1, matches).
ModuleA ==
    [id |-> 0, order |-> 2, key |-> "a", enabled |-> TRUE, raises |-> "none",
     data |-> [k \in {"x"} |-> 1]]

ModuleB ==
    [id |-> 0, order |-> 1, key |-> "b", enabled |-> TRUE, raises |-> "none",
     data |-> [k \in {"y"} |-> 2]]

SigS1 == SigRecord(TRUE, <<>>, <<>>, 5, "none", TRUE)

SigS2 == SigRecord(TRUE, <<>>, <<>>, 1, "none", TRUE)

\* Processor.run over the units of the end-to-end example, in every order
\* the registry can supply them.
NextExample ==
    \/ RunBegin({ModuleA, ModuleB}, MaxModules)
    \/ ListPluginsRaises
    \/ RunModule
    \/ RunListSignatures({SigS1, SigS2}, MaxSigs)
    \/ RunSignature
    \/ RunFinish

SpecExample == Init /\ [][NextExample]_vars

\* Signatures whose run assigns to the results object they were given.
WritingSigs ==
    {[x EXCEPT !.writes = TRUE] : x \in SigFew \cup {SigRecord(FALSE, <<>>, <<>>, 1, "none", TRUE)}}

\* Processor.run over signatures that write and signatures that only read.
NextAlias ==
    \/ RunBegin(ModuleFew, 1)
    \/ ListPluginsRaises
    \/ RunModule
    \/ RunListSignatures(SigFew \cup WritingSigs, MaxSigs)
    \/ RunSignature
    \/ RunFinish

SpecAlias == Init /\ [][NextAlias]_vars

\* An enabled and a disabled module of one key, a disabled module of a key
\* of its own.
ModuleOnOff ==
    ModuleFew \cup
    {[id |-> 0, order |-> 1, key |-> k, enabled |-> FALSE, raises |-> "none",
      data |-> "d1"] : k \in {"a", "b"}}

\* The disabled signatures of every pair of bounds, and enabled ones.
SigOnOff == {x \in GatePool : ~x.enabled} \cup SigFew

InitOnOff == InitWith({V_2_0, V_abc})

\* Processor.run over enabled and disabled modules and signatures.
NextOnOff ==
    \/ RunBegin(ModuleOnOff, MaxModules)
    \/ ListPluginsRaises
    \/ RunModule
    \/ RunListSignatures(SigOnOff, MaxGateSigs)
    \/ RunSignature
    \/ RunFinish

SpecOnOff == InitOnOff /\ [][NextOnOff]_vars

\* Modules that declare the reserved key: the data of their run is a list of
\* one record, or the empty list.
ModuleReserved ==
    ModuleFew \cup
    {[id |-> 0, order |-> 1, key |-> "signatures", enabled |-> TRUE,
      raises |-> "none", data |-> d] : d \in {<<>>, <<[name |-> 0, severity |-> 1]>>}}

\* Signatures without bounds, of every severity, that match or do not.
SigPlain ==
    {SigRecord(TRUE, <<>>, <<>>, s, "none", m) : s \in 1..MaxSeverity, m \in BOOLEAN}

\* Processor.run over modules that write under the reserved key.
NextReserved ==
    \/ RunBegin(ModuleReserved, MaxModules)
    \/ ListPluginsRaises
    \/ RunModule
    \/ RunListSignatures(SigPlain, MaxSigs)
    \/ RunSignature
    \/ RunFinish

SpecReserved == Init /\ [][NextReserved]_vars

-----------------------------------------------------------------------------
(* What the properties below read off a state.                             *)

Modules == {modules_list[i] : i \in 1..Len(modules_list)}

Signatures == {signatures_list[i] : i \in 1..Len(signatures_list)}

\* The plugin code `what` of the unit `id` has been entered.
Entered(what, id) == \E i \in 1..Len(calls) : calls[i] = <<what, id>>

CallPos(what, id) == CHOOSE i \in 1..Len(calls) : calls[i] = <<what, id>>

Logged(message, id) ==
    \E i \in 1..Len(log) : log[i][2] = message /\ log[i][3] = id

\* The module is enabled and no step of its handling throws.
ModuleWrites(m) == m.enabled /\ m.raises = "none"

WrittenKeys == {m.key : m \in {n \in Modules : ModuleWrites(n)}}

\* m1 precedes m2 in non-decreasing order, ties in the registry's order.
Precedes(m1, m2) ==
    m1.order < m2.order \/ (m1.order = m2.order /\ m1.id < m2.id)

-----------------------------------------------------------------------------
(* Properties.                                                             *)

\* C1: no failure of a single module or signature aborts Processor.run; only
\* a failure of the registry call list_plugins leaves run with an exception.
C1_OnlyRegistryFailurePropagates ==
    pc = "raised" => raised = <<"list_plugins">>

\* C2 as stated: the keys of the returned document are exactly the result keys
\* of the modules that are enabled and whose run did not fail.
C2_KeysAreWrittenKeys ==
    pc = "done" => DOMAIN results = WrittenKeys

\* C2 as amended: the keys of the returned document are the result keys of the
\* modules that are enabled and whose run did not fail, and "signatures".
C2_KeysAreWrittenKeysAndSignatures ==
    pc = "done" => DOMAIN results = WrittenKeys \cup {"signatures"}

\* A document is returned after one module wrote its key and another module,
\* disabled or failing, declared a key that no module wrote.
C2_Witness ==
    /\ pc = "done"
    /\ \E m, n \in Modules :
          /\ ModuleWrites(m) /\ m.key # "signatures"
          /\ ~ModuleWrites(n) /\ n.key \notin WrittenKeys \cup {"signatures"}

\* C3: when the run of a processing module raises CuckooProcessingError or any
\* other exception, the step that handles the module leaves the document as it
\* was, no exception leaves Processor.run and the loop goes on to the next
\* module of the sorted list.
C3_FailedRunIsIsolated ==
    [][(/\ pc = "processing"
        /\ mi <= Len(modules_list)
        /\ modules_list[mi].enabled
        /\ modules_list[mi].raises \in {"CuckooProcessingError", "Exception"})
       => (/\ results' = results
           /\ \E i \in 1..Len(calls') :
                 calls'[i] = <<"module.run", modules_list[mi].id>>
           /\ pc' = "processing"
           /\ raised' = <<>>
           /\ mi' = mi + 1)]_vars

\* The run of the first module of the sorted list failed, the second module
\* was run after it and its key is in the returned document.
C3_Witness ==
    /\ pc = "done"
    /\ Len(modules_list) = 2
    /\ modules_list[1].enabled
    /\ modules_list[1].raises \in {"CuckooProcessingError", "Exception"}
    /\ Entered("module.run", modules_list[1].id)
    /\ ModuleWrites(modules_list[2])
    /\ Entered("module.run", modules_list[2].id)
    /\ modules_list[2].key \in DOMAIN results

\* C4: processing modules are handled in non-decreasing order, ties in the
\* order the registry supplied them: a module that has been handled was
\* handled after every module that precedes it.
C4_RunInOrder ==
    \A m1, m2 \in Modules :
        Precedes(m1, m2) /\ Entered("module()", m2.id)
            => /\ Entered("module()", m1.id)
               /\ CallPos("module()", m1.id) < CallPos("module()", m2.id)

\* Two modules that the registry supplied in decreasing order have both been
\* handled.
C4_Witness ==
    \E m1, m2 \in Modules :
        /\ m1.order < m2.order /\ m1.id > m2.id
        /\ Entered("module()", m1.id) /\ Entered("module()", m2.id)

\* The writer of key k that is last in the sorted sequence.
LastWriter(k) ==
    CHOOSE m \in Modules :
        /\ ModuleWrites(m) /\ m.key = k
        /\ \A n \in Modules : ModuleWrites(n) /\ n.key = k /\ n # m => Precedes(n, m)

C6_SignaturesSorted ==
    pc = "done" =>
        \A i, j \in 1..Len(results["signatures"]) :
            i < j =>
                /\ results["signatures"][i].severity
                       <= results["signatures"][j].severity
                /\ results["signatures"][i].severity
                       = results["signatures"][j].severity
                   => CallPos("signature()", results["signatures"][i].name)
                          < CallPos("signature()", results["signatures"][j].name)

\* The returned list holds two matches of equal severity.
C6_Witness ==
    /\ pc = "done"
    /\ Len(results["signatures"]) = 2
    /\ results["signatures"][1].severity = results["signatures"][2].severity

\* The place of a version string among the versions of the model, known from
\* the string itself once the part after "-" is dropped: 0 for a string that
\* denotes no version.
VersionRank(v) ==
    CASE v = V_1_5 -> 1
      [] v = V_2_0a1 -> 2
      [] v = V_2_0 -> 3
      [] v = V_2_0_beta -> 3
      [] v = V_2_0_1 -> 4
      [] v = V_2_1 -> 5
      [] v = V_2_1_dev -> 5
      [] OTHER -> 0

\* The running version is not lower than the minimum the signature declares.
PassesMinimum(x) ==
    \/ x.minimum = <<>>
    \/ /\ VersionRank(x.minimum) > 0
       /\ VersionRank(CUCKOO_VERSION) > 0
       /\ VersionRank(CUCKOO_VERSION) >= VersionRank(x.minimum)

\* The running version is not higher than the maximum the signature declares.
PassesMaximum(x) ==
    \/ x.maximum = <<>>
    \/ /\ VersionRank(x.maximum) > 0
       /\ VersionRank(CUCKOO_VERSION) > 0
       /\ VersionRank(CUCKOO_VERSION) <= VersionRank(x.maximum)

\* Enabled, inside both version bounds, and the match logic returned true.
SigQualifies(x) ==
    /\ x.enabled /\ x.raises = "none" /\ x.matches
    /\ PassesMinimum(x) /\ PassesMaximum(x)

\* C7: the "signatures" list of the returned document holds exactly one record
\* for each signature that is enabled, passes both version gates and whose
\* match logic returned a positive result, and no other record.
C7_ExactlyTheMatches ==
    pc = "done" =>
        /\ Len(results["signatures"])
               = Cardinality({x \in Signatures : SigQualifies(x)})
        /\ \A x \in Signatures :
               SigQualifies(x) =>
                   Cardinality({i \in 1..Len(results["signatures"]) :
                                   results["signatures"][i].name = x.name}) = 1
        /\ \A i \in 1..Len(results["signatures"]) :
               \E x \in Signatures :
                   /\ SigQualifies(x)
                   /\ results["signatures"][i]
                          = [name |-> x.name, severity |-> x.severity]

\* A document is returned with the record of one signature, the other
\* signature being enabled and matching but outside its version bounds.
C7_Witness ==
    /\ pc = "done"
    /\ Len(results["signatures"]) = 1
    /\ \E x, y \in Signatures :
          /\ SigQualifies(x)
          /\ y.enabled /\ y.raises = "none" /\ y.matches /\ ~SigQualifies(y)

\* The signature has no record among the collected matches.
NoRecord(x) == \A i \in 1..Len(sigs) : sigs[i].name # x.name

\* _run_signature returned None for the signature without running its match
\* logic, and the loop went on.
Skipped(x) ==
    /\ si > x.name
    /\ ~Entered("signature.run", x.name)
    /\ NoRecord(x)

\* The signature has been handled, was instantiated and is enabled.
Gated(x) ==
    /\ Entered("signature()", x.name)
    /\ x.raises # "init"
    /\ x.enabled

\* C8: a signature with a parseable minimum is skipped by the minimum gate
\* exactly when the running version is strictly lower than the minimum (its
\* match logic is not run and it has no record); when the running version is
\* equal or higher the gate lets it through, and a signature without a
\* maximum then has its match logic run.
C8_MinimumGate ==
    \A x \in Signatures :
        Gated(x) /\ VersionRank(x.minimum) > 0 /\ VersionRank(CUCKOO_VERSION) > 0
        => IF VersionRank(CUCKOO_VERSION) < VersionRank(x.minimum)
           THEN /\ Skipped(x)
                /\ Logged("older incompatible version", x.name)
           ELSE /\ ~Logged("older incompatible version", x.name)
                /\ ~Logged("Wrong minor version number", x.name)
                /\ x.maximum = <<>> =>
                       /\ Entered("signature.run", x.name)
                       /\ (x.raises = "none" /\ x.matches => ~NoRecord(x))

\* A matching signature of minimum 2.0 was skipped on the running version 1.5.
C8_Witness ==
    /\ CUCKOO_VERSION = V_1_5
    /\ \E x \in Signatures :
          /\ Gated(x) /\ x.minimum = V_2_0 /\ x.matches /\ x.raises = "none"
          /\ Skipped(x)

\* C9: a signature with a parseable maximum is skipped by the maximum gate
\* exactly when the running version is strictly higher than the maximum; a
\* signature whose maximum cannot be parsed is skipped, also when its minimum
\* gate passed and its match logic would have matched.
C9_MaximumGate ==
    \A x \in Signatures :
        Gated(x) /\ x.maximum # <<>> /\ PassesMinimum(x)
        => IF VersionRank(x.maximum) = 0
           THEN Skipped(x)
           ELSE VersionRank(CUCKOO_VERSION) > 0 =>
                    IF VersionRank(CUCKOO_VERSION) > VersionRank(x.maximum)
                    THEN /\ Skipped(x)
                         /\ Logged("newer incompatible version", x.name)
                    ELSE /\ ~Logged("newer incompatible version", x.name)
                         /\ Entered("signature.run", x.name)

\* C10: a signature that declares an unparseable minimum, or a minimum while
\* the running version is unparseable, is always skipped: its match logic is
\* not run, it has no record, and no exception leaves Processor.run.
C10_UnparseableMinimumSkipped ==
    \A x \in Signatures :
        /\ Gated(x)
        /\ x.minimum # <<>>
        /\ (VersionRank(x.minimum) = 0 \/ VersionRank(CUCKOO_VERSION) = 0)
        => /\ Skipped(x)
           /\ pc # "raised"

\* C11: an enabled signature that declares neither a minimum nor a maximum is
\* never stopped by the version checks, whatever the running version string
\* is: its match logic is run, no version message is logged for it, and when
\* it matches its record is collected.
C11_NoBoundsNeverGated ==
    \A x \in Signatures :
        Gated(x) /\ x.minimum = <<>> /\ x.maximum = <<>>
        => /\ Entered("signature.run", x.name)
           /\ ~Logged("older incompatible version", x.name)
           /\ ~Logged("newer incompatible version", x.name)
           /\ ~Logged("Wrong minor version number", x.name)
           /\ ~Logged("Wrong major version number", x.name)
           /\ (x.raises = "none" /\ x.matches => ~NoRecord(x))

\* On the running version "abc", which cannot be parsed, a signature without
\* bounds was run and its match collected.
C11_Witness ==
    /\ CUCKOO_VERSION = V_abc
    /\ \E x \in Signatures :
          /\ Gated(x) /\ x.minimum = <<>> /\ x.maximum = <<>>
          /\ x.raises = "none" /\ x.matches
          /\ Entered("signature.run", x.name)
          /\ ~NoRecord(x)

\* The registry supplied A and B, once each, and both have been merged.
ExampleModulesMerged ==
    /\ pc \in {"signatures", "done"}
    /\ Len(modules_list) = 2
    /\ \E i, j \in 1..2 :
          /\ modules_list[i] = [ModuleA EXCEPT !.id = modules_list[i].id]
          /\ modules_list[j] = [ModuleB EXCEPT !.id = modules_list[j].id]

\* The registry supplied S1 and S2, once each, and the document is returned.
ExampleSignaturesDone ==
    /\ pc = "done"
    /\ Len(signatures_list) = 2
    /\ {signatures_list[i].severity : i \in 1..2} = {1, 5}

\* The match records of S2 and S1, in this order.
ExampleMatches ==
    LET s1 == CHOOSE i \in 1..2 : signatures_list[i].severity = 5
        s2 == CHOOSE i \in 1..2 : signatures_list[i].severity = 1
    IN  <<[name |-> s2, severity |-> 1], [name |-> s1, severity |-> 5]>>

\* B was handled before A.
ExampleBFirst ==
    \A a, b \in Modules :
        a.key = "a" /\ b.key = "b"
            => CallPos("module()", b.id) < CallPos("module()", a.id)

\* C12 as stated: B is merged before A and the merged document is
\* {"y": 2, "x": 1}; the "signatures" entry is [S2, S1].
C12_ExampleFlat ==
    /\ ExampleModulesMerged
        => /\ ExampleBFirst
           /\ DOMAIN results \ {"signatures"} = {"x", "y"}
           /\ results["x"] = 1
           /\ results["y"] = 2
    /\ ExampleModulesMerged /\ ExampleSignaturesDone
        => results["signatures"] = ExampleMatches

\* C12 as amended: B is merged before A and the merged document holds the
\* data of each module under the key of the module, {"b": {"y": 2},
\* "a": {"x": 1}}; the "signatures" entry is [S2, S1].
C12_ExampleKeyed ==
    /\ ExampleModulesMerged
        => /\ ExampleBFirst
           /\ DOMAIN results \ {"signatures"} = {"a", "b"}
           /\ results["a"] = [k \in {"x"} |-> 1]
           /\ results["b"] = [k \in {"y"} |-> 2]
    /\ ExampleModulesMerged /\ ExampleSignaturesDone
        => results["signatures"] = ExampleMatches

\* The registry supplied A before B and S1 before S2, and the document is
\* returned.
C12_Witness ==
    /\ ExampleModulesMerged
    /\ ExampleSignaturesDone
    /\ modules_list[2].id = 1
    /\ signatures_list[1].severity = 5
    /\ Len(results["signatures"]) = 2

\* C13: while the signatures are evaluated the document is the complete merge
\* of the module fragments: it has the keys the modules wrote, each with the
\* data of its last sorted writer, whichever signatures have been run.
C13_DocumentReadOnly ==
    pc = "signatures" =>
        /\ DOMAIN results = WrittenKeys
        /\ \A k \in DOMAIN results : results[k] = LastWriter(k).data

\* C14: the run of a disabled processing module is never entered and a key
\* of the document is the key of an enabled module; a disabled signature,
\* whatever bounds it declares, is passed over without a version check (no
\* version message, no exception), its run is never entered and it has no
\* record among the matches.
C14_DisabledNeverRun ==
    /\ \A m \in Modules : ~m.enabled => ~Entered("module.run", m.id)
    /\ \A k \in DOMAIN results \ {"signatures"} :
           \E m \in Modules : m.enabled /\ m.key = k
    /\ \A x \in Signatures :
           Entered("signature()", x.name) /\ x.raises # "init" /\ ~x.enabled
           => /\ Skipped(x)
              /\ ~Logged("older incompatible version", x.name)
              /\ ~Logged("newer incompatible version", x.name)
              /\ ~Logged("Wrong minor version number", x.name)
              /\ ~Logged("Wrong major version number", x.name)
    /\ pc = "done" =>
           \A i \in 1..Len(results["signatures"]) :
               signatures_list[results["signatures"][i].name].enabled

\* A document is returned without the key of a disabled module, after a
\* disabled signature whose bounds cannot be parsed was passed over.
C14_Witness ==
    /\ pc = "done"
    /\ \E m \in Modules : ~m.enabled /\ m.key \notin DOMAIN results
    /\ \E x \in Signatures :
          /\ ~x.enabled /\ x.matches
          /\ x.minimum = V_dash_beta /\ x.maximum = V_abc
          /\ Skipped(x)

\* C15: the returned document always has the key "signatures", and its value
\* is the sorted list of the matches: one record for each signature that
\* matched, no other element, in non-decreasing severity; this also when a
\* processing module wrote its own data under "signatures".
C15_SignaturesIsMatchList ==
    pc = "done" =>
        /\ "signatures" \in DOMAIN results
        /\ Len(results["signatures"])
               = Cardinality({x \in Signatures : SigQualifies(x)})
        /\ \A i \in 1..Len(results["signatures"]) :
               \E x \in Signatures :
                   /\ SigQualifies(x)
                   /\ results["signatures"][i]
                          = [name |-> x.name, severity |-> x.severity]
        /\ \A i, j \in 1..Len(results["signatures"]) :
               i < j => results["signatures"][i].severity
                            <= results["signatures"][j].severity

\* A module wrote a list of one record under "signatures"; the returned
\* document holds, in its place, the records of two signatures that matched
\* and were collected in decreasing severity.
C15_Witness ==
    /\ pc = "done"
    /\ \E m \in Modules :
          /\ m.key = "signatures" /\ m.data # <<>>
          /\ Entered("module.run", m.id)
    /\ Len(results["signatures"]) = 2
    /\ Len(signatures_list) = 2
    /\ signatures_list[1].severity > signatures_list[2].severity

\* C16: when the match logic of a signature raises, the step that handles
\* the signature adds no record, keeps the matches collected so far, lets no
\* exception leave Processor.run and goes on to the next signature of the
\* registry list.
C16_FailedSignatureIsNoMatch ==
    [][(/\ pc = "signatures"
        /\ si <= Len(signatures_list)
        /\ signatures_list[si].enabled
        /\ signatures_list[si].raises = "run"
        /\ PassesMinimum(signatures_list[si])
        /\ PassesMaximum(signatures_list[si]))
       => (/\ sigs' = sigs
           /\ \E i \in 1..Len(calls') :
                 calls'[i] = <<"signature.run", signatures_list[si].name>>
           /\ \E i \in 1..Len(log') :
                 log'[i] = <<"exception", "Failed to run signature",
                            signatures_list[si].name>>
           /\ pc' = "signatures"
           /\ raised' = <<>>
           /\ si' = si + 1)]_vars

\* The match logic of the first signature raised, the second signature was
\* evaluated after it, and the returned list holds the record of the second.
C16_Witness ==
    /\ pc = "done"
    /\ Len(signatures_list) = 2
    /\ signatures_list[1].enabled /\ signatures_list[1].raises = "run"
    /\ Entered("signature.run", 1)
    /\ SigQualifies(signatures_list[2])
    /\ Entered("signature.run", 2)
    /\ results["signatures"] = <<[name |-> 2, severity |-> signatures_list[2].severity]>>

\* C17 as stated: a declared bound is parsed as given, so a signature whose
\* minimum or maximum is "2.0-beta" fails the parsing and is skipped.
C17_SuffixedBoundSkipped ==
    \A x \in Signatures :
        /\ Gated(x) /\ x.minimum = V_2_0_beta => Skipped(x)
        /\ Gated(x) /\ x.maximum = V_2_0_beta /\ PassesMinimum(x) => Skipped(x)

\* C17 as amended: the part after "-" is dropped from the running version
\* and from the declared bound alike, so on a running version that can be
\* parsed a signature with the bound "2.0-beta" is checked against 2.0: no
\* parsing failure is logged, it is skipped exactly when the running version
\* is lower than the minimum 2.0, or higher than the maximum 2.0, and
\* otherwise goes on to the next check or to its match logic.
C17_BoundsNormalized ==
    \A x \in Signatures :
        Gated(x) /\ VersionRank(CUCKOO_VERSION) > 0
        => /\ x.minimum = V_2_0_beta
              => /\ ~Logged("Wrong minor version number", x.name)
                 /\ Logged("older incompatible version", x.name)
                        <=> VersionRank(CUCKOO_VERSION) < VersionRank(V_2_0)
                 /\ VersionRank(CUCKOO_VERSION) < VersionRank(V_2_0)
                        => Skipped(x)
                 /\ VersionRank(CUCKOO_VERSION) >= VersionRank(V_2_0)
                        /\ x.maximum = <<>>
                        => Entered("signature.run", x.name)
           /\ x.maximum = V_2_0_beta /\ PassesMinimum(x)
              => /\ ~Logged("Wrong major version number", x.name)
                 /\ Logged("newer incompatible version", x.name)
                        <=> VersionRank(CUCKOO_VERSION) > VersionRank(V_2_0)
                 /\ IF VersionRank(CUCKOO_VERSION) > VersionRank(V_2_0)
                    THEN Skipped(x)
                    ELSE Entered("signature.run", x.name)

\* On the running version "2.1-dev" a matching signature of minimum
\* "2.0-beta" was run and its match collected.
C17_Witness ==
    /\ CUCKOO_VERSION = V_2_1_dev
    /\ \E x \in Signatures :
          /\ Gated(x) /\ x.minimum = V_2_0_beta /\ x.maximum = <<>>
          /\ x.raises = "none" /\ x.matches
          /\ Entered("signature.run", x.name)
          /\ ~NoRecord(x)

\* C18: when a signature is instantiated every processing module has been
\* handled before it and the document holds the keys the modules wrote; a
\* signature is instantiated after every signature the registry supplied
\* before it, whatever the severities are.
C18_PhaseOrder ==
    /\ \A x \in Signatures :
           Entered("signature()", x.name)
           => /\ \A m \in Modules :
                     /\ Entered("module()", m.id)
                     /\ CallPos("module()", m.id) < CallPos("signature()", x.name)
                     /\ ModuleWrites(m) =>
                            /\ Entered("module.run", m.id)
                            /\ CallPos("module.run", m.id)
                                   < CallPos("signature()", x.name)
              /\ pc = "signatures" => DOMAIN results = WrittenKeys
    /\ \A x, y \in Signatures :
           x.name < y.name /\ Entered("signature()", y.name)
           => /\ Entered("signature()", x.name)
              /\ CallPos("signature()", x.name) < CallPos("signature()", y.name)

\* Two modules were handled, then two signatures that the registry supplied
\* in decreasing severity were evaluated in that order and both matched; the
\* returned list holds them in the opposite order.
C18_Witness ==
    /\ pc = "done"
    /\ Len(modules_list) = 2
    /\ Len(signatures_list) = 2
    /\ signatures_list[1].severity > signatures_list[2].severity
    /\ CallPos("signature.run", 1) < CallPos("signature.run", 2)
    /\ Len(results["signatures"]) = 2
    /\ results["signatures"][1].name = 2
    /\ results["signatures"][2].name = 1

\* C19: once the run of an enabled module has completed without raising, the
\* key of the module is in the document, whatever data the run returned; and
\* what _run_processing returns for a module is None or a fragment of
\* exactly one key, the key of the module.
C19_KeyAlwaysContributed ==
    /\ \A m \in Modules :
           ModuleWrites(m) /\ Entered("module.run", m.id)
               => m.key \in DOMAIN results
    /\ \A m \in Modules :
           _run_processing(m).ret = None
               \/ DOMAIN _run_processing(m).ret[1] = {m.key}

\* The run of a module returned None as its data, and the returned document
\* holds None under the key of the module.
C19_Witness ==
    /\ pc = "done"
    /\ \E m \in Modules :
          /\ ModuleWrites(m) /\ m.data = "None" /\ m.key # "signatures"
          /\ Entered("module.run", m.id)
          /\ m.key \in DOMAIN results
          /\ results[m.key] = "None"

\* The number of times the plugin code `what` of the unit `id` was entered.
TimesEntered(what, id) ==
    Cardinality({i \in 1..Len(calls) : calls[i] = <<what, id>>})

\* Processor.run is over, and not by a failure of the registry.
RunEnded ==
    \/ pc = "done"
    \/ pc = "raised" /\ raised # <<"list_plugins">>

\* C20: no module class and no signature class is instantiated twice, and
\* when Processor.run is over it has returned the document after having
\* instantiated every module class and every signature class of the registry
\* lists once.
C20_EachUnitOnceAndReturned ==
    /\ \A m \in Modules : TimesEntered("module()", m.id) <= 1
    /\ \A x \in Signatures : TimesEntered("signature()", x.name) <= 1
    /\ RunEnded
        => /\ pc = "done"
           /\ \A m \in Modules : TimesEntered("module()", m.id) = 1
           /\ \A x \in Signatures : TimesEntered("signature()", x.name) = 1

====
